---- MODULE Spec2Model ----
(***************************************************************************)
(* Model of src/worker/src/worker.js: a Cloudflare Worker router in front  *)
(* of one Durable Object ("Room") per slug.  Each Room keeps an in-memory  *)
(* Map  key -> { offer, answer, createdAt }  that is swept by gc() at the  *)
(* top of every request.  A Room runs one piece of JavaScript at a time,   *)
(* but a handler that awaits req.json() is suspended at that await, and    *)
(* other requests to the same Room may run meanwhile; Date.now() may have  *)
(* advanced when the handler resumes.                                      *)
(***************************************************************************)
EXTENDS Integers, Sequences, FiniteSets, TLC

(* ------------------------------ bounds --------------------------------- *)
MaxReqs == 3      \* requests issued in one behaviour
MaxTicks == 1     \* clock advances in one behaviour

(* --------------------------- program constants ------------------------- *)
ttlSec == 600     \* gc(ttlSec = 600)

(* ------------------------------ JS values ------------------------------ *)
\* A JSON/JS value, two levels deep: a top-level value whose "offer" and
\* "answer" properties (for objects) are named atoms.
V(kind, name, o, a) == [kind |-> kind, name |-> name, offer |-> o, answer |-> a]

Undefined == V("undefined", "", "absent", "absent")
JNull == V("null", "", "absent", "absent")
Scalar(n) == V("scalar", n, "absent", "absent")
Arr == V("array", "", "absent", "absent")
Obj(o, a) == V("object", "", o, a)
\* the request body that req.json() cannot parse (missing or malformed)
Unparseable == V("unparseable", "", "absent", "absent")

\* atoms that name falsy scalars: 0, false, ""
FalsyNames == {"0", "false", ""}

AtomVal(a) ==
  IF a = "absent" THEN Undefined
  ELSE IF a = "null" THEN JNull
  ELSE Scalar(a)

\* JavaScript truthiness ( !x , x || y )
Truthy(v) ==
  \/ v.kind \in {"object", "array"}
  \/ v.kind = "scalar" /\ v.name \notin FalsyNames

\* property access v.p ; on null / undefined it throws a TypeError
Throws(v) == v.kind \in {"null", "undefined"}

Prop(v, p) == IF v.kind = "object" THEN AtomVal(v[p]) ELSE Undefined

\* x || null
OrNull(v) == IF Truthy(v) THEN v ELSE JNull

(* ------------------------------ inputs --------------------------------- *)
Rooms == {"alpha", "beta"}
CallerKeys == {"k1"}
\* the values crypto.randomUUID() returns, in the order it returns them
UuidStream == <<"u1", "u2">>
UUIDs == {UuidStream[i] : i \in 1..Len(UuidStream)}
AllKeys == CallerKeys \cup UUIDs
NoKey == ""

\* a request line: the method and the pathname split on "/" with empty parts dropped
Req(m, p) == [method |-> m, path |-> p]

Requests ==
  { Req("OPTIONS", <<"room", "alpha", "offer">>),
    Req("GET", <<"health">>), Req("POST", <<"health">>),
    Req("GET", <<"nowhere">>), Req("POST", <<"room", "alpha">>) } \cup
  { Req("POST", <<"room", r, "offer">>) : r \in Rooms } \cup
  { Req("POST", <<"room", r, "answer">>) : r \in Rooms } \cup
  { Req("GET", <<"room", r, "get">>) : r \in Rooms } \cup
  { Req("GET", <<"room", r, "answer">>) : r \in Rooms }

Bodies ==
  { Unparseable, JNull,
    Obj("sdpA", "absent"), Obj("absent", "sdpA"), Obj("absent", "0") }

\* the clock advances by half the TTL, by the TTL, or by 1 ms more than the TTL
TickSteps == {(ttlSec * 1000) \div 2, ttlSec * 1000, ttlSec * 1000 + 1}

(* ------------------------------ state ---------------------------------- *)
VARIABLES
  sessions,   \* [Rooms -> Map]  this.sessions of each Room instance
  inflight,   \* [Slots -> request suspended at  await req.json()  or Idle]
  now,        \* Date.now()
  ev,         \* the last router/Room step and the response it produced
  hist,       \* history: what callers sent for each (room, key)
  nuuid,      \* values drawn from crypto.randomUUID()
  nreq,       \* requests issued
  ticks       \* clock advances

vars == <<sessions, inflight, now, ev, hist, nuuid, nreq, ticks>>

Slots == {1, 2}

EmptyMap == [k \in {} |-> Undefined]
Restrict(f, S) == [k \in S |-> f[k]]
Put(map, k, v) == [x \in (DOMAIN map) \cup {k} |-> IF x = k THEN v ELSE map[x]]

Idle ==
  [active |-> FALSE, slug |-> "", room |-> "", method |-> "", action |-> "",
   key |-> "", since |-> 0, swept |-> EmptyMap, alone |-> TRUE]

(* ------------------------------ responses ------------------------------ *)
Resp(status, ctype, tag, key, o, a) ==
  [status |-> status, ctype |-> ctype, tag |-> tag, key |-> key,
   offer |-> o, answer |-> a]

NoResp == Resp(0, "none", "", "", Undefined, Undefined)
\* json(obj, status = 200)
json(tag, status, key, o, a) == Resp(status, "json", tag, key, o, a)
NotFoundText == Resp(404, "text", "Not found", "", Undefined, Undefined)
HealthText == Resp(200, "text", "ok", "", Undefined, Undefined)
Preflight == Resp(204, "none", "", "", Undefined, Undefined)
\* an exception that escapes Room.fetch: no response of the handler
Uncaught == Resp(500, "none", "exception", "", Undefined, Undefined)

(* ------------------------------ Room ----------------------------------- *)
\* the eviction test of gc(): falsy createdAt or older than ttlSec seconds
Expired(v, t) == v.createdAt = 0 \/ t - v.createdAt > ttlSec * 1000

\* faulty variant: the TTL in seconds compared with an age in milliseconds
GcMissingUnits(map, t) ==
  Restrict(map, {k \in DOMAIN map :
                   ~(map[k].createdAt = 0 \/ t - map[k].createdAt > ttlSec)})

\* faulty variant: >= in place of > , an entry aged exactly the TTL is evicted
GcAtLeast(map, t) ==
  Restrict(map, {k \in DOMAIN map :
                   ~(map[k].createdAt = 0 \/ t - map[k].createdAt >= ttlSec * 1000)})

\* faulty variant: the TTL taken in microseconds, expired entries stay
GcTooLong(map, t) ==
  Restrict(map, {k \in DOMAIN map :
                   ~(map[k].createdAt = 0
                     \/ t - map[k].createdAt > ttlSec * 1000 * 1000)})

\* gc(): delete every entry that passes the eviction test
Gc(map, t) == Restrict(map, {k \in DOMAIN map : ~Expired(map[k], t)})

\* req.json().catch(() => null)
ParseOffer(body) == IF body = Unparseable THEN JNull ELSE body
\* req.json().catch(() => ({}))
ParseAnswer(body) == IF body = Unparseable THEN Obj("absent", "absent") ELSE body

\* faulty variant: no  if (!offer)  check
HandleOfferNoCheck(key, body, map, t) ==
  LET offer == ParseOffer(body)
  IN [map |-> Put(map, key, [offer |-> offer, answer |-> Undefined, createdAt |-> t]),
      resp |-> json("key", 200, key, Undefined, Undefined)]

\* faulty variant: the overwrite keeps the answer of the record it replaces
HandleOfferKeepAnswer(key, body, map, t) ==
  LET offer == ParseOffer(body)
  IN IF ~Truthy(offer)
     THEN [map |-> map, resp |-> json("invalid offer", 400, "", Undefined, Undefined)]
     ELSE [map |-> Put(map, key,
                       [offer |-> offer,
                        answer |-> IF key \in DOMAIN map THEN map[key].answer ELSE Undefined,
                        createdAt |-> t]),
           resp |-> json("key", 200, key, Undefined, Undefined)]

\* faulty variant: an unparseable body becomes {} as on the answer path
HandleOfferLenient(key, body, map, t) ==
  LET offer == ParseAnswer(body)
  IN IF ~Truthy(offer)
     THEN [map |-> map, resp |-> json("invalid offer", 400, "", Undefined, Undefined)]
     ELSE [map |-> Put(map, key, [offer |-> offer, answer |-> Undefined, createdAt |-> t]),
           resp |-> json("key", 200, key, Undefined, Undefined)]

\* POST .../offer after the body has been read
HandleOffer(key, body, map, t) ==
  LET offer == ParseOffer(body)
  IN IF ~Truthy(offer)
     THEN [map |-> map, resp |-> json("invalid offer", 400, "", Undefined, Undefined)]
     ELSE [map |-> Put(map, key, [offer |-> offer, answer |-> Undefined, createdAt |-> t]),
           resp |-> json("key", 200, key, Undefined, Undefined)]

\* faulty variant: the write also refreshes createdAt
HandleAnswerTouch(key, body, map, t) ==
  LET b == ParseAnswer(body)
  IN IF key \notin DOMAIN map \/ ~Truthy(map[key].offer)
     THEN [map |-> map, resp |-> json("no offer", 404, "", Undefined, Undefined)]
     ELSE IF Throws(b)
     THEN [map |-> map, resp |-> Uncaught]
     ELSE [map |-> [map EXCEPT ![key].answer = Prop(b, "answer"), ![key].createdAt = t],
           resp |-> json("ok", 200, "", Undefined, Undefined)]

\* faulty variant: a missing entry is created before the 404
HandleAnswerUpsert(key, body, map, t) ==
  LET b == ParseAnswer(body)
  IN IF Throws(b)
     THEN [map |-> map, resp |-> Uncaught]
     ELSE IF key \notin DOMAIN map
     THEN [map |-> Put(map, key, [offer |-> Undefined, answer |-> Prop(b, "answer"),
                                  createdAt |-> t]),
           resp |-> json("no offer", 404, "", Undefined, Undefined)]
     ELSE [map |-> [map EXCEPT ![key].answer = Prop(b, "answer")],
           resp |-> json("ok", 200, "", Undefined, Undefined)]

\* faulty variant: an unparseable body is rejected as on the offer path
HandleAnswerStrict(key, body, map, t) ==
  IF key \notin DOMAIN map \/ ~Truthy(map[key].offer)
  THEN [map |-> map, resp |-> json("no offer", 404, "", Undefined, Undefined)]
  ELSE IF body = Unparseable
  THEN [map |-> map, resp |-> json("invalid answer", 400, "", Undefined, Undefined)]
  ELSE IF Throws(body)
  THEN [map |-> map, resp |-> Uncaught]
  ELSE [map |-> [map EXCEPT ![key].answer = Prop(body, "answer")],
        resp |-> json("ok", 200, "", Undefined, Undefined)]

\* POST .../answer after the body has been read
HandleAnswer(key, body, map, t) ==
  LET b == ParseAnswer(body)
  IN IF key \notin DOMAIN map \/ ~Truthy(map[key].offer)
     THEN [map |-> map, resp |-> json("no offer", 404, "", Undefined, Undefined)]
     ELSE IF Throws(b)
     THEN [map |-> map, resp |-> Uncaught]
     ELSE [map |-> [map EXCEPT ![key].answer = Prop(b, "answer")],
           resp |-> json("ok", 200, "", Undefined, Undefined)]

\* faulty variant: a read consumes the record
HandleGetConsume(key, map) ==
  IF key \notin DOMAIN map
  THEN [map |-> map, resp |-> NotFoundText]
  ELSE [map |-> Restrict(map, (DOMAIN map) \ {key}),
        resp |-> json("session", 200, "", map[key].offer, OrNull(map[key].answer))]

\* GET .../get
HandleGet(key, map) ==
  IF key \notin DOMAIN map
  THEN [map |-> map, resp |-> NotFoundText]
  ELSE [map |-> map,
        resp |-> json("session", 200, "", map[key].offer, OrNull(map[key].answer))]

\* faulty variant: every handler awaits
SuspendsAlways(method, action) == TRUE

\* the handlers that await the request body before touching the map
Suspends(method, action) == method = "POST" /\ action \in {"offer", "answer"}

\* the part of Room.fetch that follows this.gc() (and the body read, if any)
Handle(method, action, key, body, map, t) ==
  IF method = "POST" /\ action = "offer" THEN HandleOffer(key, body, map, t)
  ELSE IF method = "POST" /\ action = "answer" THEN HandleAnswer(key, body, map, t)
  ELSE IF method = "GET" /\ action = "get" THEN HandleGet(key, map)
  ELSE [map |-> map, resp |-> NotFoundText]

(* ------------------------------ router --------------------------------- *)
\* parts[0] === "room" && parts.length >= 3
RoutesToRoom(method, path) ==
  /\ method # "OPTIONS"
  /\ path # <<"health">>
  /\ Len(path) >= 3
  /\ path[1] = "room"

\* faulty variant: every slug resolves to the same instance
RoomOfShared(slug) == "alpha"

\* env.ROOM.get(env.ROOM.idFromName(slug)): the Room instance that serves a slug
RoomOf(slug) == slug

\* faulty variant: the fallback 404 is a JSON error
RouterRespJson(method, path) ==
  IF method = "OPTIONS" THEN Preflight
  ELSE IF path = <<"health">> THEN HealthText
  ELSE json("Not found", 404, "", Undefined, Undefined)

\* export default fetch for a request that reaches no Room
RouterResp(method, path) ==
  IF method = "OPTIONS" THEN Preflight
  ELSE IF path = <<"health">> THEN HealthText
  ELSE NotFoundText

(* ------------------------------ history -------------------------------- *)
\* the payload a caller put under `field` of the JSON body it sent
PayloadOf(body, field) ==
  IF body.kind = "object" THEN AtomVal(body[field]) ELSE Undefined

NoHist == [T |-> 0, O |-> Undefined, answered |-> FALSE, A |-> Undefined]

Record(h, op, resp, key, body, t) ==
  IF op = "offer" /\ resp.status = 200
  THEN [h EXCEPT ![key] = [T |-> t, O |-> PayloadOf(body, "offer"),
                            answered |-> FALSE, A |-> Undefined]]
  ELSE IF op = "answer" /\ resp.status = 200
  THEN [h EXCEPT ![key].answered = TRUE, ![key].A = PayloadOf(body, "answer")]
  ELSE h

OpOf(method, action) ==
  IF method = "POST" /\ action = "offer" THEN "offer"
  ELSE IF method = "POST" /\ action = "answer" THEN "answer"
  ELSE IF method = "GET" /\ action = "get" THEN "get"
  ELSE "none"

(* ------------------------------ keys ----------------------------------- *)
\* crypto.randomUUID(): the next value of the stream, never one drawn before
FreshUUIDs ==
  IF nuuid < Len(UuidStream) THEN {UuidStream[nuuid + 1]} ELSE {}

\* the request slot a newly suspended handler occupies
FreeSlot(s) == ~inflight[s].active /\ \A x \in Slots : x < s => inflight[x].active

\* keys a caller can put in ?key= : its own, or a UUID a response disclosed
KnownKeys == CallerKeys \cup {u \in UUIDs : \E r \in Rooms : hist[r][u].T # 0}

\* url.searchParams.get("key") || crypto.randomUUID()
KeyChoices(param) == IF param = NoKey THEN FreshUUIDs ELSE {param}

(* ------------------------------ actions -------------------------------- *)
\* since: Date.now() at the request's gc(); at: Date.now() at its response
Event(kind, room, method, action, key, body, resp, pre, swept, alone, since) ==
  [kind |-> kind, room |-> room, method |-> method, action |-> action,
   op |-> OpOf(method, action), key |-> key, body |-> body, resp |-> resp,
   pre |-> pre, swept |-> swept, alone |-> alone, since |-> since,
   at |-> IF kind = "response" THEN now ELSE 0]

\* every other request suspended in `room` has now seen another request run
Disturb(room, except) ==
  [s \in Slots |->
     IF s # except /\ inflight[s].active /\ inflight[s].room = room
     THEN [inflight[s] EXCEPT !.alone = FALSE]
     ELSE inflight[s]]

Init ==
  /\ sessions = [r \in Rooms |-> EmptyMap]
  /\ inflight = [s \in Slots |-> Idle]
  /\ now = 1
  /\ ev = [kind |-> "init", room |-> "", method |-> "", action |-> "", op |-> "none",
           key |-> "", body |-> Unparseable, resp |-> NoResp,
           pre |-> EmptyMap, swept |-> EmptyMap, alone |-> TRUE, since |-> 0,
           at |-> 0]
  /\ hist = [r \in Rooms |-> [k \in AllKeys |-> NoHist]]
  /\ nuuid = 0
  /\ nreq = 0
  /\ ticks = 0

\* time passes between two pieces of JavaScript
Tick(d) ==
  /\ ticks < MaxTicks
  /\ now' = now + d
  /\ ticks' = ticks + 1
  /\ UNCHANGED <<sessions, inflight, ev, hist, nuuid, nreq>>

\* export default fetch: OPTIONS, /health and unmatched paths never reach a Room
RouterReply(method, path) ==
  /\ nreq < MaxReqs
  /\ ~RoutesToRoom(method, path)
  /\ ev' = Event("router", "", method, path[1], "", Unparseable,
                 RouterResp(method, path), EmptyMap, EmptyMap, TRUE, 0)
  /\ nreq' = nreq + 1
  /\ UNCHANGED <<sessions, inflight, now, hist, nuuid, ticks>>

\* Room.fetch up to  await req.json() : key choice and gc()
RoomFetchStart(s, method, path, param) ==
  /\ nreq < MaxReqs
  /\ RoutesToRoom(method, path)
  /\ Suspends(method, path[3])
  /\ FreeSlot(s)
  /\ \E key \in KeyChoices(param) :
       LET slug == path[2]
           room == RoomOf(slug)
           swept == Gc(sessions[room], now)
       IN /\ sessions' = [sessions EXCEPT ![room] = swept]
          /\ inflight' = [Disturb(room, s) EXCEPT ![s] =
                            [active |-> TRUE, slug |-> slug, room |-> room,
                             method |-> method, action |-> path[3], key |-> key,
                             since |-> now, swept |-> swept, alone |-> TRUE]]
          /\ ev' = Event("start", slug, "", "", "", Unparseable,
                         NoResp, EmptyMap, EmptyMap, TRUE, 0)
  /\ nuuid' = IF param = NoKey THEN nuuid + 1 ELSE nuuid
  /\ nreq' = nreq + 1
  /\ UNCHANGED <<now, hist, ticks>>

\* Room.fetch from the resolution of  await req.json()  to the response
RoomFetchResume(s, body) ==
  /\ inflight[s].active
  /\ LET q == inflight[s]
         out == Handle(q.method, q.action, q.key, body, sessions[q.room], now)
     IN /\ sessions' = [sessions EXCEPT ![q.room] = out.map]
        /\ hist' = [hist EXCEPT ![q.slug] =
                      Record(@, OpOf(q.method, q.action), out.resp, q.key, body, now)]
        /\ ev' = Event("response", q.slug, q.method, q.action, q.key, body,
                       out.resp, sessions[q.room], q.swept, q.alone, q.since)
        /\ inflight' = [Disturb(q.room, s) EXCEPT ![s] = Idle]
  /\ UNCHANGED <<now, nuuid, nreq, ticks>>

\* Room.fetch for a request whose handler has no await: gc() to response
RoomFetchSync(method, path, param) ==
  /\ nreq < MaxReqs
  /\ RoutesToRoom(method, path)
  /\ ~Suspends(method, path[3])
  /\ \E key \in KeyChoices(param) :
       LET slug == path[2]
           room == RoomOf(slug)
           swept == Gc(sessions[room], now)
           out == Handle(method, path[3], key, Unparseable, swept, now)
       IN /\ sessions' = [sessions EXCEPT ![room] = out.map]
          /\ hist' = [hist EXCEPT ![slug] =
                        Record(@, OpOf(method, path[3]), out.resp, key, Unparseable, now)]
          /\ ev' = Event("response", slug, method, path[3], key, Unparseable,
                         out.resp, swept, swept, TRUE, now)
          /\ inflight' = Disturb(room, 0)
  /\ nuuid' = IF param = NoKey THEN nuuid + 1 ELSE nuuid
  /\ nreq' = nreq + 1
  /\ UNCHANGED <<now, ticks>>

Next ==
  \/ \E d \in TickSteps : Tick(d)
  \/ \E q \in Requests : RouterReply(q.method, q.path)
  \/ \E s \in Slots, q \in Requests, k \in KnownKeys \cup {NoKey} :
       RoomFetchStart(s, q.method, q.path, k)
  \/ \E s \in Slots, b \in Bodies : RoomFetchResume(s, b)
  \/ \E q \in Requests, k \in KnownKeys \cup {NoKey} :
       RoomFetchSync(q.method, q.path, k)

Spec == Init /\ [][Next]_vars

(* ------------------------------ claims --------------------------------- *)
TtlMs == ttlSec * 1000

Responded(op) == ev.kind = "response" /\ ev.op = op

\* what a ReadSession(k) on room r returns when it runs at time t
ReadSession(r, k, t) == HandleGet(k, Gc(sessions[RoomOf(r)], t)).resp

\* C1: round trip. Every successful ReadSession of a record that was created
\* from a body carrying the offer payload O and last answered with a body
\* carrying the answer payload A returns offer = O and answer = A.
C1_RoundTrip ==
  LET h == hist[ev.room][ev.key]
  IN (/\ Responded("get") /\ ev.resp.status = 200
      /\ h.answered /\ h.O # Undefined /\ h.A # Undefined)
     => ev.resp.offer = h.O /\ ev.resp.answer = h.A

C3_TtlExpiry ==
  LET T == hist[ev.room][ev.key].T
  IN (Responded("get") /\ T # 0)
     => /\ ev.at - T < TtlMs => ev.resp.status = 200
        /\ ev.at - T > TtlMs => ev.resp = NotFoundText
        /\ ev.resp.status = 200 =>
             /\ ev.pre[ev.key].createdAt = T
             /\ ev.at - ev.pre[ev.key].createdAt <= TtlMs

C3_Witness ==
  /\ Responded("get")
  /\ hist[ev.room][ev.key].T # 0
  /\ ev.at - hist[ev.room][ev.key].T > TtlMs
  /\ ev.resp = NotFoundText

\* C4: no-offer rejection. SubmitAnswer on a key that the map does not hold
\* returns 404 "no offer" and creates no record: the map is left as the
\* lookup found it, and, when no other request ran in the room since this
\* request's GC sweep, its keys are those the sweep left.
C4_NoOfferRejected ==
  (Responded("answer") /\ ev.key \notin DOMAIN ev.pre)
  => /\ ev.resp = json("no offer", 404, "", Undefined, Undefined)
     /\ sessions[ev.room] = ev.pre
     /\ ev.alone => DOMAIN sessions[ev.room] = DOMAIN ev.swept

C4_Witness ==
  /\ Responded("answer") /\ ev.key \notin DOMAIN ev.pre
  /\ ev.alone
  /\ ev.pre # EmptyMap
  /\ ev.resp.status = 404

\* C5: isolation across rooms. A step of a request addressed to one room
\* changes the session map of no other room, a key appears in a room's map
\* only by a successful CreateOffer addressed to that room with that key, and
\* ReadSession(K) is NotFound in a room where K was never created.
C5_Frame ==
  \A r \in Rooms :
    sessions'[r] # sessions[r] =>
      /\ ev'.kind \in {"start", "response"}
      /\ ev'.room = r
      /\ \A k \in (DOMAIN sessions'[r]) \ (DOMAIN sessions[r]) :
           /\ ev'.op = "offer" /\ ev'.key = k /\ ev'.resp.status = 200

C5_NeverCreated ==
  \A r \in Rooms, k \in AllKeys :
    hist[r][k].T = 0 => ReadSession(r, k, now) = NotFoundText

C5_Isolation == []C5_NeverCreated /\ [][C5_Frame]_vars

C5_Witness ==
  /\ Responded("get") /\ ev.room = "beta" /\ ev.resp = NotFoundText
  /\ ev.key \in DOMAIN sessions["alpha"]
  /\ DOMAIN sessions["beta"] = {}

\* C6: malformed offer rejected. CreateOffer with a missing or unparseable
\* body returns 400 "invalid offer" without a key and leaves the map as it
\* found it; a ReadSession of any key that held no record stays NotFound.
C6_MalformedOffer ==
  (Responded("offer") /\ ev.body = Unparseable)
  => /\ ev.resp = json("invalid offer", 400, "", Undefined, Undefined)
     /\ sessions[ev.room] = ev.pre
     /\ ev.alone => sessions[ev.room] = ev.swept
     /\ \A k \in AllKeys \ DOMAIN ev.pre :
          ReadSession(ev.room, k, ev.at) = NotFoundText

C6_Witness ==
  /\ Responded("offer") /\ ev.body = Unparseable
  /\ ev.resp.status = 400
  /\ ev.pre # EmptyMap
  /\ ev.key \notin DOMAIN ev.pre

\* C7: malformed answer tolerated. SubmitAnswer with an unparseable body on a
\* key that holds a live record returns {ok:true}, and the ReadSession that
\* follows returns the record with answer null.
C7_MalformedAnswer ==
  (/\ Responded("answer") /\ ev.body = Unparseable
   /\ ev.key \in DOMAIN ev.pre /\ ~Expired(ev.pre[ev.key], ev.at))
  => /\ ev.resp = json("ok", 200, "", Undefined, Undefined)
     /\ ReadSession(ev.room, ev.key, ev.at)
          = json("session", 200, "", ev.pre[ev.key].offer, JNull)

C7_Witness ==
  /\ Responded("answer") /\ ev.body = Unparseable
  /\ ev.key \in DOMAIN ev.pre /\ ~Expired(ev.pre[ev.key], ev.at)
  /\ ev.resp.status = 200

C9_RecordInvariant ==
  /\ \A r \in Rooms : \A k \in DOMAIN sessions[r] :
       Truthy(sessions[r][k].offer) /\ sessions[r][k].createdAt > 0
  /\ (Responded("answer") /\ ev.resp.tag = "no offer") => ev.key \notin DOMAIN ev.pre

C9_Witness ==
  /\ Responded("answer") /\ ev.resp.tag = "no offer"
  /\ \E k \in DOMAIN sessions[ev.room] : sessions[ev.room][k].answer # Undefined

\* C10: SubmitAnswer frame. A successful SubmitAnswer(K, A) leaves the map's
\* keys, the offer and createdAt of the record at K and every other record as
\* the lookup found them; when no other request ran in the room since its GC
\* sweep these are the records the sweep left.
C10_AnswerFrame ==
  (Responded("answer") /\ ev.resp.status = 200)
  => /\ ev.key \in DOMAIN ev.pre
     /\ DOMAIN sessions[ev.room] = DOMAIN ev.pre
     /\ sessions[ev.room][ev.key].offer = ev.pre[ev.key].offer
     /\ sessions[ev.room][ev.key].createdAt = ev.pre[ev.key].createdAt
     /\ \A k \in DOMAIN ev.pre : k # ev.key => sessions[ev.room][k] = ev.pre[k]
     /\ ev.alone => ev.pre = ev.swept

C10_Witness ==
  /\ Responded("answer") /\ ev.resp.status = 200
  /\ Cardinality(DOMAIN ev.pre) = 2
  /\ ev.at > ev.pre[ev.key].createdAt
  /\ sessions[ev.room][ev.key].answer = Scalar("sdpA")

\* C11: ReadSession is read-only. Whether it returns a record or NotFound,
\* the map after the call is the map its GC sweep left, and the same
\* ReadSession repeated with no expiry in between returns the same result.
C11_ReadOnly ==
  Responded("get")
  => /\ sessions[RoomOf(ev.room)] = ev.swept
     /\ ReadSession(ev.room, ev.key, ev.at) = ev.resp

C11_Witness ==
  /\ Responded("get") /\ ev.resp.status = 200
  /\ ev.resp.answer = Scalar("sdpA")
  /\ sessions[RoomOf(ev.room)] = ev.swept

\* C12: GC sweep. The step that starts a request in a room, whatever its
\* method, action or outcome, leaves in the map exactly the records whose
\* createdAt is set and whose age is at most TTL, each unchanged; a record
\* aged exactly TTL is kept.
Survivors(map, t) ==
  Restrict(map, {k \in DOMAIN map :
                   map[k].createdAt # 0 /\ t - map[k].createdAt <= TtlMs})

C12_SweepStep ==
  (nreq' = nreq + 1 /\ ev'.kind \in {"start", "response"})
  => LET room == RoomOf(ev'.room)
         kept == Survivors(sessions[room], now)
     IN IF ev'.kind = "start"
        THEN sessions'[room] = kept
        ELSE ev'.swept = kept /\ ev'.since = now

C12_Sweep == [][C12_SweepStep]_vars

C12_Witness ==
  /\ ev.kind = "response" /\ ev.op = "none"
  /\ \E k \in DOMAIN ev.swept : ev.at - ev.swept[k].createdAt = TtlMs
  /\ sessions[RoomOf(ev.room)] = ev.swept

\* C13: removal only by TTL. A key leaves a room's map only in the step that
\* starts a request in that room, and only if its record is older than TTL.
C13_RemovalStep ==
  \A r \in Rooms : \A k \in (DOMAIN sessions[r]) \ (DOMAIN sessions'[r]) :
    /\ nreq' = nreq + 1
    /\ now - sessions[r][k].createdAt > TtlMs

C13_RemovalOnlyByTtl == [][C13_RemovalStep]_vars

C13_Witness ==
  /\ ev.kind = "start"
  /\ \E k \in AllKeys :
       /\ hist[ev.room][k].T # 0
       /\ now - hist[ev.room][k].T > TtlMs
       /\ k \notin DOMAIN sessions[RoomOf(ev.room)]

\* C14: answer returned verbatim. A successful ReadSession returns answer
\* null when no SubmitAnswer succeeded on the record, and otherwise the most
\* recently submitted answer payload unchanged, falsy payloads included.
C14_AnswerVerbatim ==
  LET h == hist[ev.room][ev.key]
  IN (Responded("get") /\ ev.resp.status = 200)
     => /\ ~h.answered => ev.resp.answer = JNull
        /\ (h.answered /\ h.A # Undefined) => ev.resp.answer = h.A

\* C15: expired and never-created keys are indistinguishable. In every state
\* where a room still holds a record of K older than TTL, a ReadSession(K) or
\* SubmitAnswer(K, body) issued now returns the same response and leaves the
\* same map as in the copy of the room that holds no record of K.
NeverCreated(map, k) == Restrict(map, (DOMAIN map) \ {k})

C16_AlwaysAResponse ==
  ev.kind = "response"
  => /\ ev.resp.status \in {200, 400, 404}
     /\ Responded("answer") =>
          IF ev.key \in DOMAIN ev.pre
          THEN ev.resp = json("ok", 200, "", Undefined, Undefined)
          ELSE ev.resp = json("no offer", 404, "", Undefined, Undefined)

C17_Unmatched ==
  /\ (ev.kind = "router" /\ ev.method # "OPTIONS" /\ ev.action # "health")
     => ev.resp = NotFoundText
  /\ (ev.kind = "response" /\ ev.op = "none")
     => ev.resp = NotFoundText /\ sessions[RoomOf(ev.room)] = ev.swept

C17_RouterStep ==
  (nreq' = nreq + 1 /\ ev'.kind = "router") => sessions' = sessions

C18_NoActOnExpired ==
  (Responded("answer") /\ ev.resp.status = 200)
  => ev.at - ev.pre[ev.key].createdAt <= TtlMs

\* C18 (amended): SubmitAnswer returns {ok:true} and writes only to a record
\* whose age was at most TTL when the request's GC sweep ran; at the lookup
\* and write, after the body read, the record may be older than TTL.
C18_LiveAtSweep ==
  (Responded("answer") /\ ev.resp.status = 200)
  => /\ ev.key \in DOMAIN ev.pre
     /\ ev.since - ev.pre[ev.key].createdAt <= TtlMs
     /\ ev.since <= ev.at

C18_Witness ==
  /\ Responded("answer") /\ ev.resp.status = 200
  /\ ev.at - ev.pre[ev.key].createdAt > TtlMs
  /\ ev.since - ev.pre[ev.key].createdAt <= TtlMs

\* C19: SubmitAnswer's check-then-write is atomic. The answer is written to
\* the record the map holds under the key at the moment of the write, also
\* when other requests ran during the body read: a record that another
\* request replaced receives the answer as the replacement, and a key that
\* another request's GC removed is answered 404 and stays absent.
C19_AtomicCheckThenWrite ==
  Responded("answer")
  => IF ev.key \in DOMAIN ev.pre
     THEN /\ ev.resp.status \in {200, 500}
          /\ ev.key \in DOMAIN sessions[RoomOf(ev.room)]
          /\ sessions[RoomOf(ev.room)][ev.key].offer = ev.pre[ev.key].offer
          /\ sessions[RoomOf(ev.room)][ev.key].createdAt = ev.pre[ev.key].createdAt
          /\ ev.resp.status = 200 =>
               sessions[RoomOf(ev.room)][ev.key].answer
                 = Prop(ParseAnswer(ev.body), "answer")
     ELSE /\ ev.resp.status = 404
          /\ ev.key \notin DOMAIN sessions[RoomOf(ev.room)]

C19_Witness ==
  /\ Responded("answer") /\ ev.resp.status = 200 /\ ~ev.alone
  /\ ev.key \in DOMAIN ev.swept
  /\ ev.swept[ev.key].offer # ev.pre[ev.key].offer
  /\ sessions[RoomOf(ev.room)][ev.key].answer = Scalar("sdpA")

====
